---- MODULE Spec2Model ----
(***************************************************************************)
(* A model of src/src/hashtable.rs: HashTable<K, V>, a separate-chaining   *)
(* hash table that doubles its bucket vector when size / buckets.len()     *)
(* reaches load_factor.                                                    *)
(*                                                                         *)
(* Keys are the integers 1..MaxKey (1..MaxNewKeys in SpecNew), values the  *)
(* integers 1..MaxValue, and Option::None is the number 0.                 *)
(* A load factor is the rational num / den; the f64 comparison             *)
(*   (size as f64 / len as f64) >= load_factor                             *)
(* is the exact comparison size * den >= num * len: both sides are         *)
(* correctly rounded and the ratios of the small integers used here lie    *)
(* far more than one ulp away from each other.                             *)
(*                                                                         *)
(* SpecPQ models src/src/priorityqueue.rs: MaxPQ, a binary max-heap of     *)
(* i32 in a vector whose index 0 holds a placeholder 0. The element at     *)
(* index i of the code is heap[i + 1] here. The values are the integers    *)
(* -MaxPQValue..MaxPQValue: the code only compares and moves them.         *)
(***************************************************************************)
EXTENDS Integers, Sequences, FiniteSets

\* ---------------------------------------------------------------- bounds
MaxKey == 3
MaxValue == 2
MaxInitBuckets == 2
MaxLFNum == 2
LFDen == 2
MaxMul == 2
HashMod == 64
MaxBuckets == 8
MaxNewKeys == 33
MaxNewBuckets == 64
MaxPQValue == 1
MaxHeap == 6
MaxFrom == 5

Keys == 1..MaxKey
NewKeys == 1..MaxNewKeys
Values == 1..MaxValue
None == 0

VARIABLES
    buckets,        \* self.buckets: a sequence of buckets, each a sequence of HashNodes
    load_factor,    \* self.load_factor, as the rational <<num, den>>
    size,           \* self.size
    hmul,           \* which deterministic hash function the hasher computes
    panicked,       \* TRUE once a call has panicked (the thread unwinds)
    ctor,           \* the constructor call that built the table
    last,           \* history: key -> value of the most recent put that returned
    hist,           \* history: the most recent call and what it did
    order,          \* history: the keys in the order of their first put (SpecOrd)
    pc,             \* where a put in progress stands (SpecSteps)
    old,            \* the nodes the iterator `old` of put still holds (SpecSteps)
    heap,           \* MaxPQ: self.heap (SpecPQ)
    pqcall          \* MaxPQ history: the most recent call and what it returned

vars == <<buckets, load_factor, size, hmul, panicked, ctor, last, hist,
          order, pc, old, heap, pqcall>>

\* ------------------------------------------------------------ the table
\* struct HashNode { key, value, hash }
HashNode(k, v, h) == [key |-> k, value |-> v, hash |-> h]

\* hash_of: the stdlib DefaultHasher, a deterministic function of the key.
\* The model draws it (hmul, in Init) from the family k -> k * hmul mod
\* HashMod: hmul = 0 makes all keys collide on one hash, hmul = 1 gives
\* every key its own hash, and the others in between.
hash_of(key) == (key * hmul) % HashMod

\* vec![vec![]; n]
EmptyBuckets(n) == [i \in 1..n |-> <<>>]

\* The table value the methods take and return: the fields of the struct
\* and whether the call panicked on the way.
Table(b, lf, s) ==
    [buckets |-> b, load_factor |-> lf, size |-> s, panicked |-> FALSE]

\* HashTable::new
new == Table(EmptyBuckets(16), <<1, 1>>, 0)

\* HashTable::with
with(n, lf) == Table(EmptyBuckets(n), lf, 0)

\* The position of key in a bucket (1-based), 0 when absent: the scan of
\* `for node in bucket.iter_mut()` stops at the first match.
FirstMatch(bucket, key) ==
    IF \E i \in 1..Len(bucket) : bucket[i].key = key
    THEN CHOOSE i \in 1..Len(bucket) :
            /\ bucket[i].key = key
            /\ \A j \in 1..(i - 1) : bucket[j].key # key
    ELSE 0

\* A mutant of _put: the size is counted before the bucket index is computed.
PutNodeCountsFirst(t, n) ==
    IF Len(t.buckets) = 0
    THEN [t EXCEPT !.panicked = TRUE, !.size = @ + 1]
    ELSE LET index == (n.hash % Len(t.buckets)) + 1
             bucket == t.buckets[index]
             at == FirstMatch(bucket, n.key)
         IN  IF at # 0
             THEN [t EXCEPT !.buckets[index][at].value = n.value]
             ELSE [t EXCEPT !.buckets[index] = Append(bucket, HashNode(n.key, n.value, n.hash)),
                            !.size = @ + 1]

\* A mutant of _put: the scan is missing, every node is pushed.
PutNodeNoScan(t, n) ==
    IF Len(t.buckets) = 0
    THEN [t EXCEPT !.panicked = TRUE]
    ELSE LET index == (n.hash % Len(t.buckets)) + 1
         IN  [t EXCEPT !.buckets[index] = Append(@, HashNode(n.key, n.value, n.hash)),
                       !.size = @ + 1]

\* A mutant of _put: the replace path counts the node too.
PutNodeCountsReplace(t, n) ==
    IF Len(t.buckets) = 0
    THEN [t EXCEPT !.panicked = TRUE]
    ELSE LET index == (n.hash % Len(t.buckets)) + 1
             bucket == t.buckets[index]
             at == FirstMatch(bucket, n.key)
         IN  IF at # 0
             THEN [t EXCEPT !.buckets[index][at].value = n.value, !.size = @ + 1]
             ELSE [t EXCEPT !.buckets[index] = Append(bucket, HashNode(n.key, n.value, n.hash)),
                            !.size = @ + 1]

\* A mutant of _put: the bucket is chosen by the key, not by the stored hash.
PutNodeIndexByKey(t, n) ==
    IF Len(t.buckets) = 0
    THEN [t EXCEPT !.panicked = TRUE]
    ELSE LET index == (n.key % Len(t.buckets)) + 1
             bucket == t.buckets[index]
             at == FirstMatch(bucket, n.key)
         IN  IF at # 0
             THEN [t EXCEPT !.buckets[index][at].value = n.value]
             ELSE [t EXCEPT !.buckets[index] = Append(bucket, HashNode(n.key, n.value, n.hash)),
                            !.size = @ + 1]

\* HashTable::_put. `n.hash % self.buckets.len()` panics (remainder by
\* zero) on a table without buckets, before anything is written.
_put(t, n) ==
    IF Len(t.buckets) = 0
    THEN [t EXCEPT !.panicked = TRUE]
    ELSE LET index == (n.hash % Len(t.buckets)) + 1
             bucket == t.buckets[index]
             at == FirstMatch(bucket, n.key)
         IN  IF at # 0
             THEN [t EXCEPT !.buckets[index][at].value = n.value]
             ELSE [t EXCEPT !.buckets[index] = Append(bucket, HashNode(n.key, n.value, n.hash)),
                            !.size = @ + 1]

\* self.buckets.into_iter().flat_map(Vec::into_iter): the nodes of bucket
\* 0, then those of bucket 1, ..., each bucket in its own order.
RECURSIVE FlatFrom(_, _)
FlatFrom(b, i) == IF i > Len(b) THEN <<>> ELSE b[i] \o FlatFrom(b, i + 1)

\* A mutant of OldNodes: the old nodes are taken from the back.
RECURSIVE Reversed(_)
Reversed(q) == IF q = <<>> THEN q ELSE Append(Reversed(Tail(q)), Head(q))

OldNodesReversed(b) == Reversed(FlatFrom(b, 1))

\* A mutant of OldNodes: the first node of the old table is dropped.
OldNodesDropFirst(b) == LET all == FlatFrom(b, 1) IN
    IF all = <<>> THEN all ELSE Tail(all)

OldNodes(b) == FlatFrom(b, 1)

\* for node in old { self._put(node); }
RECURSIVE PutAll(_, _, _)
PutAll(t, nodes, i) ==
    IF i > Len(nodes) THEN t ELSE PutAll(_put(t, nodes[i]), nodes, i + 1)

\* A mutant of ShouldGrow: > for >=.
ShouldGrowStrict(t) ==
    t.size * t.load_factor[2] > t.load_factor[1] * Len(t.buckets)

\* A mutant of ShouldGrow: the table grows on every put.
ShouldGrowAlways(t) == TRUE

\* (self.size as f64 / self.buckets.len() as f64) >= self.load_factor
ShouldGrow(t) ==
    t.size * t.load_factor[2] >= t.load_factor[1] * Len(t.buckets)

\* A mutant of Grow: the new vector has one bucket more, not twice as many.
GrowByOne(t) ==
    PutAll(Table(EmptyBuckets(Len(t.buckets) + 1), t.load_factor, 0),
           OldNodes(t.buckets), 1)

\* The body of the `if` of put: a bucket vector twice as long, size 0,
\* and every old node put again by its stored hash.
Grow(t) ==
    PutAll(Table(EmptyBuckets(Len(t.buckets) * 2), t.load_factor, 0),
           OldNodes(t.buckets), 1)

\* A mutant of put: the table grows until the ratio is below the load
\* factor (at most twice).
PutGrowsAgain(t, key, value) ==
    LET t1 == _put(t, HashNode(key, value, hash_of(key)))
        t2 == IF ShouldGrow(t1) THEN Grow(t1) ELSE t1
    IN  IF t1.panicked THEN t1
        ELSE IF ShouldGrow(t1) /\ ShouldGrow(t2) THEN Grow(t2) ELSE t2

\* HashTable::put
put(t, key, value) ==
    LET t1 == _put(t, HashNode(key, value, hash_of(key)))
    IN  IF t1.panicked THEN t1
        ELSE IF ShouldGrow(t1) THEN Grow(t1) ELSE t1

\* index_of followed by the scan of get; Option::None is None. The caller
\* checks for the table without buckets, on which index_of panics.
get(t, key) ==
    LET bucket == t.buckets[(hash_of(key) % Len(t.buckets)) + 1]
        at == FirstMatch(bucket, key)
    IN  IF at = 0 THEN None ELSE bucket[at].value

\* ------------------------------------------------------------- actions
Self == Table(buckets, load_factor, size)
SelfNext == Table(buckets', load_factor', size')

\* Whether some node of the table carries the key, in whatever bucket.
Present(t, key) ==
    \E i \in 1..Len(t.buckets) : \E j \in 1..Len(t.buckets[i]) :
        t.buckets[i][j].key = key

\* The number of nodes of the table that carry the key.
Occurrences(t, key) ==
    Len(SelectSeq(OldNodes(t.buckets), LAMBDA n : n.key = key))

NoCall == [op |-> "none", key |-> 0, value |-> 0, appended |-> FALSE,
           grew |-> FALSE, repeat |-> FALSE, returned |-> TRUE]

\* The keys some put that returned has been given.
PutKeys == {k \in DOMAIN last : last[k] # None}

\* No put is in progress.
Idle == [at |-> "idle", size0 |-> 0, key |-> 0, value |-> 0]

\* No call on a MaxPQ has been made.
NoPQCall == [op |-> "none", arg |-> <<>>, ret |-> <<>>, panicked |-> FALSE,
             touched0 |-> FALSE]

\* No MaxPQ is in use.
NoQueue == heap = <<0>> /\ pqcall = NoPQCall

\* let table = HashTable::new();  or  HashTable::with(n, num / den);
Built(t, c) ==
    /\ buckets = t.buckets
    /\ size = t.size
    /\ load_factor = t.load_factor
    /\ ctor = c
    /\ panicked = FALSE
    /\ last = [k \in NewKeys \cup Keys |-> None]
    /\ hist = NoCall
    /\ order = <<>>
    /\ pc = Idle
    /\ old = <<>>

\* The tables of the model: new(), the scenario with(4, 0.5), and with(n, f)
\* for every n in 0..MaxInitBuckets and f in {0, 1/LFDen, ..., MaxLFNum/LFDen}.
Init ==
    /\ NoQueue
    /\ hmul \in 0..MaxMul
    /\ \/ Built(new, [fn |-> "new", n |-> 16])
       \/ Built(with(4, <<1, 2>>), [fn |-> "with", n |-> 4])
       \/ \E n \in 0..MaxInitBuckets, num \in 0..MaxLFNum :
              Built(with(n, <<num, LFDen>>), [fn |-> "with", n |-> n])

\* table = table.put(key, value);  A put that panics returns nothing: the
\* table is dropped by the unwinding and no later call is made. cap bounds
\* the model: a put that would grow the table past cap buckets is not made.
Put(key, value, cap) ==
    /\ ~panicked
    /\ \E t \in {put(Self, key, value)} :
        /\ Len(t.buckets) = Len(buckets) \/ Len(t.buckets) <= cap
        /\ panicked' = t.panicked
        /\ buckets' = t.buckets
        /\ size' = t.size
        /\ load_factor' = t.load_factor
        /\ last' = IF t.panicked THEN last ELSE [last EXCEPT ![key] = value]
        /\ hist' = [op |-> "put", key |-> key, value |-> value,
                    appended |-> ~t.panicked /\ ~Present(Self, key),
                    grew |-> Len(t.buckets) # Len(buckets),
                    repeat |-> hist.op = "put" /\ hist.key = key,
                    returned |-> ~t.panicked]
    /\ UNCHANGED <<hmul, ctor, pc, old, heap, pqcall>>

\* let r = table.get(key);  index_of panics (remainder by zero) on a table
\* without buckets.
Get(key) ==
    /\ ~panicked
    /\ panicked' = (Len(buckets) = 0)
    /\ hist' = [NoCall EXCEPT !.op = "get", !.key = key,
                   !.value = IF Len(buckets) = 0 THEN None ELSE get(Self, key),
                   !.returned = Len(buckets) # 0]
    /\ UNCHANGED <<buckets, load_factor, size, hmul, ctor, last,
                   pc, old, heap, pqcall>>

Next ==
    \/ \E key \in Keys, value \in Values :
            Put(key, value, MaxBuckets) /\ UNCHANGED order
    \/ \E key \in Keys : Get(key) /\ UNCHANGED order

Spec == Init /\ [][Next]_vars

\* ---------------------------------------------- the default table, filled
\* tests::test_rehashing and its like: a table from new() is given the keys
\* 1, 2, 3, ... in this order, each with its own number as the value, and
\* any key already given may be put or looked up again at any time.
InitNew ==
    /\ NoQueue
    /\ hmul \in 0..MaxMul
    /\ Built(new, [fn |-> "new", n |-> 16])

NextKey == Cardinality(PutKeys) + 1

NextNew ==
    \/ \E key \in NewKeys :
            key <= NextKey /\ Put(key, key, MaxNewBuckets) /\ UNCHANGED order
    \/ \E key \in NewKeys : key <= NextKey /\ Get(key) /\ UNCHANGED order

SpecNew == InitNew /\ [][NextNew]_vars

\* ------------------------------------------ puts with their order kept
\* SpecOrd: the tables of Init, given keys in any order; order records the
\* keys in the order of their first put. A key is put with the value 1, or
\* with 2 when the table holds 1 for it, so that a replacing put writes.
PutOrd(key) ==
    /\ Put(key, IF last[key] = 1 THEN 2 ELSE 1, MaxBuckets)
    /\ order' = IF panicked' \/ \E i \in 1..Len(order) : order[i] = key
                THEN order ELSE Append(order, key)

NextOrd == \E key \in Keys : PutOrd(key)

SpecOrd == Init /\ [][NextOrd]_vars

\* ------------------------------------------- put, statement by statement
\* The put of SpecSteps stops where the body of put does: after the vector
\* of new buckets has replaced the old one (line 133), after the size is
\* reset (line 134) and after every _put of the loop (line 137).

\* A mutant of reset_size: the size is not reset.
reset_size_skipped(t) == t

\* self.size = 0;
reset_size(t) == [t EXCEPT !.size = 0]

\* put up to line 133: _put, the load-factor test and, when it holds, the
\* new bucket vector in place of the old one, whose nodes `old` holds.
Call(key, value, cap) ==
    /\ pc.at = "idle" /\ ~panicked
    /\ \E t1 \in {_put(Self, HashNode(key, value, hash_of(key)))} :
        IF t1.panicked
        THEN /\ panicked' = TRUE
             /\ UNCHANGED <<buckets, size, last, pc, old>>
        ELSE IF ShouldGrow(t1)
        THEN /\ 2 * Len(t1.buckets) <= cap
             /\ old' = OldNodes(t1.buckets)
             /\ buckets' = EmptyBuckets(Len(t1.buckets) * 2)
             /\ size' = t1.size
             /\ pc' = [at |-> "swapped", size0 |-> t1.size,
                       key |-> key, value |-> value]
             /\ UNCHANGED <<panicked, last>>
        ELSE /\ buckets' = t1.buckets
             /\ size' = t1.size
             /\ last' = [last EXCEPT ![key] = value]
             /\ UNCHANGED <<panicked, pc, old>>
    /\ UNCHANGED <<load_factor, hmul, ctor, hist, order, heap, pqcall>>

\* line 134
ResetSize ==
    /\ pc.at = "swapped"
    /\ size' = reset_size(Self).size
    /\ pc' = [pc EXCEPT !.at = "rehash"]
    /\ UNCHANGED <<buckets, load_factor, hmul, panicked, ctor, last, hist,
                   order, old, heap, pqcall>>

\* One turn of `for node in old { self._put(node); }`
Reinsert ==
    /\ pc.at = "rehash" /\ old # <<>>
    /\ \E t \in {_put(Self, Head(old))} :
        /\ buckets' = t.buckets
        /\ size' = t.size
    /\ old' = Tail(old)
    /\ UNCHANGED <<load_factor, hmul, panicked, ctor, last, hist, order, pc,
                   heap, pqcall>>

\* The loop is over: put returns self.
Return ==
    /\ pc.at = "rehash" /\ old = <<>>
    /\ pc' = Idle
    /\ last' = [last EXCEPT ![pc.key] = pc.value]
    /\ UNCHANGED <<buckets, load_factor, size, hmul, panicked, ctor, hist,
                   order, old, heap, pqcall>>

NextSteps ==
    \/ \E key \in Keys, value \in Values : Call(key, value, MaxBuckets)
    \/ ResetSize
    \/ Reinsert
    \/ Return

SpecSteps == Init /\ [][NextSteps]_vars

\* --------------------------------------------------------------- MaxPQ
PQValues == (0 - MaxPQValue)..MaxPQValue

\* A queue in the middle of a call: its heap, and whether the call has so
\* far read or written index 0.
Q(h, z) == [heap |-> h, touched0 |-> z]

\* self.heap[i]
At(q, i) == q.heap[i + 1]

\* The call reads self.heap[i] and self.heap[j].
Looked(q, i, j) == [q EXCEPT !.touched0 = @ \/ i = 0 \/ j = 0]

\* self.heap.swap(i, j)
swap(q, i, j) ==
    Q([q.heap EXCEPT ![i + 1] = q.heap[j + 1], ![j + 1] = q.heap[i + 1]],
      q.touched0 \/ i = 0 \/ j = 0)

\* MaxPQ::empty
empty == Q(<<0>>, FALSE)

\* A mutant of swim: the loop runs while ptr >= 1.
RECURSIVE SwimToZero(_, _)
SwimToZero(q, ptr) ==
    IF ptr >= 1
    THEN LET c == Looked(q, ptr, ptr \div 2) IN
         IF At(q, ptr) > At(q, ptr \div 2)
         THEN SwimToZero(swap(c, ptr, ptr \div 2), ptr \div 2)
         ELSE c
    ELSE q

\* MaxPQ::swim
RECURSIVE swim(_, _)
swim(q, ptr) ==
    IF ptr > 1
    THEN LET c == Looked(q, ptr, ptr \div 2) IN
         IF At(q, ptr) > At(q, ptr \div 2)
         THEN swim(swap(c, ptr, ptr \div 2), ptr \div 2)
         ELSE c
    ELSE q

\* A mutant of sink: the lesser of the two children is picked.
RECURSIVE SinkToLesser(_, _)
SinkToLesser(q, ptr) ==
    IF ptr * 2 < Len(q.heap)
    THEN LET single == 2 * ptr + 1 = Len(q.heap)
             c1 == IF single THEN q ELSE Looked(q, 2 * ptr + 1, 2 * ptr)
             greater == IF single \/ At(q, 2 * ptr + 1) > At(q, 2 * ptr)
                        THEN 2 * ptr ELSE 2 * ptr + 1
             c2 == Looked(c1, ptr, greater)
         IN  IF At(q, ptr) < At(q, greater)
             THEN SinkToLesser(swap(c2, ptr, greater), greater)
             ELSE c2
    ELSE q

\* MaxPQ::sink
RECURSIVE sink(_, _)
sink(q, ptr) ==
    IF ptr * 2 < Len(q.heap)
    THEN LET single == 2 * ptr + 1 = Len(q.heap)
             c1 == IF single THEN q ELSE Looked(q, 2 * ptr + 1, 2 * ptr)
             greater == IF single \/ At(q, 2 * ptr + 1) < At(q, 2 * ptr)
                        THEN 2 * ptr ELSE 2 * ptr + 1
             c2 == Looked(c1, ptr, greater)
         IN  IF At(q, ptr) < At(q, greater)
             THEN sink(swap(c2, ptr, greater), greater)
             ELSE c2
    ELSE q

\* The loop of heapify: while ptr >= 1 { self.sink(ptr); ptr -= 1; }
RECURSIVE HeapifyFrom(_, _)
HeapifyFrom(q, ptr) ==
    IF ptr >= 1 THEN HeapifyFrom(sink(q, ptr), ptr - 1) ELSE q

\* A mutant of heapify: the loop runs while ptr > 1.
RECURSIVE HeapifyAboveRoot(_, _)
HeapifyAboveRoot(q, ptr) ==
    IF ptr > 1 THEN HeapifyAboveRoot(sink(q, ptr), ptr - 1) ELSE q

HeapifySkipsRoot(q) == HeapifyAboveRoot(q, (Len(q.heap) - 1) \div 2)

\* MaxPQ::heapify
heapify(q) == HeapifyFrom(q, (Len(q.heap) - 1) \div 2)

\* MaxPQ::from
from(values) == heapify(Q(<<0>> \o values, FALSE))

\* MaxPQ::insert
insert(q, i) ==
    LET pushed == [q EXCEPT !.heap = Append(@, i)]
    IN  swim(pushed, Len(pushed.heap) - 1)

\* What a call gives back: the queue, the value returned (as a sequence,
\* empty when the call panicked) and whether it panicked.
Done(q, ret) ==
    [heap |-> q.heap, touched0 |-> q.touched0, ret |-> ret, panicked |-> FALSE]
Panic(q) ==
    [heap |-> q.heap, touched0 |-> q.touched0, ret |-> <<>>, panicked |-> TRUE]

\* A mutant of del_max: the queue without values gives the placeholder.
DelMaxOfNothing(q) ==
    IF Len(q.heap) < 2
    THEN Done(Looked(q, 0, 0), <<At(q, 0)>>)
    ELSE LET lastIx == Len(q.heap) - 1
             swapped == swap(Looked(q, 1, 1), 1, lastIx)
             removed == [swapped EXCEPT !.heap = SubSeq(@, 1, lastIx)]
         IN  Done(sink(removed, 1), <<At(q, 1)>>)

\* MaxPQ::del_max. self.heap[1] panics (index out of bounds) when the
\* vector holds the placeholder only.
del_max(q) ==
    IF Len(q.heap) < 2
    THEN Panic(q)
    ELSE LET lastIx == Len(q.heap) - 1
             swapped == swap(Looked(q, 1, 1), 1, lastIx)
             removed == [swapped EXCEPT !.heap = SubSeq(@, 1, lastIx)]
         IN  Done(sink(removed, 1), <<At(q, 1)>>)

\* for i in 0..k { values[i] = self.del_max(); }, from turn i on; values
\* holds the results of the turns before.
RECURSIVE TopKLoop(_, _, _, _)
TopKLoop(q, values, i, k) ==
    IF i >= k THEN Done(q, values)
    ELSE LET d == del_max(q) IN
         IF d.panicked THEN d
         ELSE TopKLoop(Q(d.heap, d.touched0),
                       [values EXCEPT ![i + 1] = d.ret[1]], i + 1, k)

\* MaxPQ::top_k
top_k(q, k) == TopKLoop(q, [i \in 1..k |-> 0], 0, k)

\* for i in (0..n).rev() { values[i] = self.del_max(); }, from turn i down.
RECURSIVE HeapsortLoop(_, _, _)
HeapsortLoop(q, values, i) ==
    IF i < 0 THEN Done(q, values)
    ELSE LET d == del_max(q) IN
         IF d.panicked THEN d
         ELSE HeapsortLoop(Q(d.heap, d.touched0),
                           [values EXCEPT ![i + 1] = d.ret[1]], i - 1)

\* A mutant of heapsort: the vector is filled from the front.
RECURSIVE HeapsortUp(_, _, _)
HeapsortUp(q, values, i) ==
    IF i >= Len(values) THEN Done(q, values)
    ELSE LET d == del_max(q) IN
         IF d.panicked THEN d
         ELSE HeapsortUp(Q(d.heap, d.touched0),
                         [values EXCEPT ![i + 1] = d.ret[1]], i + 1)

HeapsortForward(q) == HeapsortUp(q, [i \in 1..(Len(q.heap) - 1) |-> 0], 0)

\* MaxPQ::heapsort
heapsort(q) ==
    HeapsortLoop(q, [i \in 1..(Len(q.heap) - 1) |-> 0], Len(q.heap) - 2)

\* The sequences of at most n values.
SeqsUpTo(n) == UNION {[1..m -> PQValues] : m \in 0..n}

\* The queue before a call.
Queue == Q(heap, FALSE)

\* A call that ended: the queue as the call left it, and the record of it.
Called(op, arg, r) ==
    /\ heap' = r.heap
    /\ pqcall' = [op |-> op, arg |-> arg, ret |-> r.ret,
                  panicked |-> r.panicked, touched0 |-> r.touched0]
    /\ UNCHANGED <<buckets, load_factor, size, hmul, panicked, ctor, last,
                   hist, order, pc, old>>

\* let mut mpq = MaxPQ::empty();  or  MaxPQ::from(values);
InitPQ ==
    /\ hmul = 0
    /\ Built(new, [fn |-> "new", n |-> 16])
    /\ \/ /\ heap = empty.heap
          /\ pqcall = [NoPQCall EXCEPT !.op = "empty"]
       \/ \E values \in SeqsUpTo(MaxFrom) : \E q \in {from(values)} :
          /\ heap = q.heap
          /\ pqcall = [NoPQCall EXCEPT !.op = "from", !.arg = values,
                                       !.touched0 = q.touched0]

\* mpq.insert(i);
Insert(i) ==
    /\ ~pqcall.panicked
    /\ Len(heap) - 1 < MaxHeap
    /\ \E q \in {insert(Queue, i)} : Called("insert", <<i>>, Done(q, <<>>))

\* mpq.del_max();
DelMax ==
    /\ ~pqcall.panicked
    /\ \E r \in {del_max(Queue)} : Called("del_max", <<>>, r)

\* mpq.top_k(k);
TopK(k) ==
    /\ ~pqcall.panicked
    /\ \E r \in {top_k(Queue, k)} : Called("top_k", <<k>>, r)

\* mpq.heapsort();
Heapsort ==
    /\ ~pqcall.panicked
    /\ \E r \in {heapsort(Queue)} : Called("heapsort", <<>>, r)

NextPQ ==
    \/ \E i \in PQValues : Insert(i)
    \/ DelMax
    \/ \E k \in 0..(MaxHeap + 1) : TopK(k)
    \/ Heapsort

SpecPQ == InitPQ /\ [][NextPQ]_vars

\* -------------------------------------------------------------- claims
Below(s, n) == s * load_factor[2] < load_factor[1] * n

\* C1: after any sequence of puts on a table with at least one bucket,
\* growths included, get(k) is the value of the most recent put of k for
\* every key that was put, and None for every key that was never put.
C1_GetReturnsLastPut ==
    Len(buckets) >= 1 => \A k \in Keys : get(Self, k) = last[k]

C1_Witness ==
    /\ hist.op = "put" /\ hist.grew /\ size >= 2
    /\ \E k \in Keys : last[k] = None
    /\ \E k \in Keys : k # hist.key /\ last[k] # None /\ get(Self, k) = last[k]

\* C2: size is the number of distinct keys put so far: a put of a present
\* key and a growth leave it, a put of a new key adds one.
C2_SizeCountsDistinctKeys ==
    Len(buckets) >= 1 => size = Cardinality(PutKeys)

C2_Witness ==
    /\ hist.op = "put" /\ ~hist.appended /\ hist.grew
    /\ size = Cardinality(PutKeys) /\ size >= 2

\* C3: a put that grows the table leaves every other key with the value
\* get returned for it before the call, and with as many nodes as before.
C3_Step ==
    (hist'.op = "put" /\ Len(buckets') # Len(buckets)) =>
        \A k \in Keys \ {hist'.key} :
            /\ get(SelfNext, k) = get(Self, k)
            /\ Occurrences(SelfNext, k) = Occurrences(Self, k)

C3_GrowthKeepsOtherKeys == [][C3_Step]_vars

C3_Witness ==
    /\ hist.op = "put" /\ hist.grew /\ hist.appended /\ size >= 3
    /\ \E i \in 1..Len(buckets) : Len(buckets[i]) >= 2

\* C4, as claimed: for n >= 1 and f > 0, size / bucket_count < load_factor
\* in the new table and after every put.
C4_Original ==
    (Len(buckets) >= 1 /\ load_factor[1] > 0) => Below(size, Len(buckets))

\* C4, amended: for n >= 1 and f > 0 the new table has size / bucket_count
\* < load_factor, and after every put either the ratio is below the load
\* factor or that put has just doubled the bucket count.
C4_Step ==
    (hist'.op = "put" /\ ~panicked' /\ load_factor[1] > 0) =>
        \/ Below(size', Len(buckets'))
        \/ Len(buckets') = 2 * Len(buckets)

C4_New ==
    (hist.op = "none" /\ Len(buckets) >= 1 /\ load_factor[1] > 0) =>
        Below(size, Len(buckets))

C4_BelowOrJustDoubled == [][C4_Step]_vars /\ []C4_New

C4_Witness ==
    /\ hist.op = "put" /\ hist.grew /\ load_factor[1] > 0
    /\ ~Below(size, Len(buckets))

\* C5, as claimed: a put of a key that is already present never changes
\* the bucket count.
C5_OriginalStep ==
    (hist'.op = "put" /\ ~panicked' /\ Present(Self, hist'.key)) =>
        Len(buckets') = Len(buckets)

C5_Original == [][C5_OriginalStep]_vars

\* C5, amended: a put of a key that is already present in a table whose
\* size / bucket_count is below the load factor never changes the bucket
\* count (put checks the ratio after every _put, appended or not).
C5_Step ==
    (/\ hist'.op = "put" /\ ~panicked'
     /\ Present(Self, hist'.key)
     /\ Below(size, Len(buckets))) =>
        Len(buckets') = Len(buckets)

C5_ReplaceBelowKeepsBuckets == [][C5_Step]_vars

C5_Witness ==
    /\ hist.op = "put" /\ ~hist.appended /\ ~hist.grew /\ hist.returned
    /\ Below(size, Len(buckets))
    /\ Len(buckets) > ctor.n

\* C6: put(k, v1) immediately followed by put(k, v2) gives get(k) = v2 and
\* the size the first put left.
C6_Step ==
    (/\ hist.op = "put" /\ hist'.op = "put" /\ hist'.key = hist.key
     /\ ~panicked') =>
        /\ get(SelfNext, hist'.key) = hist'.value
        /\ size' = size

C6_PutTwice == [][C6_Step]_vars

C6_Witness ==
    /\ hist.op = "put" /\ hist.repeat /\ hist.returned
    /\ get(Self, hist.key) = hist.value
    /\ \E k \in Keys : k # hist.key /\ last[k] # None /\ last[k] # hist.value

\* C7: a put that appends a new key grows the table exactly when the ratio
\* after the append is at or above the load factor, a growth doubles the
\* bucket count, and with(4, 0.5) has 4 buckets with one key and 8 with two.
C7_Step ==
    (hist'.op = "put" /\ ~panicked' /\ ~Present(Self, hist'.key)) =>
        /\ (Len(buckets') # Len(buckets)) <=> ~Below(size + 1, Len(buckets))
        /\ Len(buckets') \in {Len(buckets), 2 * Len(buckets)}

C7_Scenario ==
    (ctor = [fn |-> "with", n |-> 4] /\ load_factor = <<1, 2>>) =>
        /\ size =< 1 => Len(buckets) = 4
        /\ size = 2 => Len(buckets) = 8

C7_GrowsAtThreshold == [][C7_Step]_vars /\ []C7_Scenario

C7_Witness ==
    /\ ctor = [fn |-> "with", n |-> 4] /\ load_factor = <<1, 2>>
    /\ hist.op = "put" /\ hist.appended /\ hist.grew
    /\ size = 2 /\ Len(buckets) = 8

\* C8: across a put the bucket count stays or doubles, once, also when the
\* doubling leaves the ratio at or above the load factor.
C8_Step == Len(buckets') \in {Len(buckets), 2 * Len(buckets)}

C8_StaysOrDoubles == [][C8_Step]_vars

C8_Witness ==
    /\ hist.op = "put" /\ hist.grew /\ load_factor[1] > 0
    /\ ~Below(size, Len(buckets))
    /\ size >= 2

\* C9: a table from new() that holds N distinct keys has the smallest
\* 16 * 2^g buckets above N; it grows only on the put that appends key
\* number 16 * 2^g, so 25 keys end with size 25 and 32 buckets.
RECURSIVE Capacity(_, _)
Capacity(c, n) == IF c > n THEN c ELSE Capacity(2 * c, n)

C9_NewTableCapacity ==
    /\ Len(buckets) = Capacity(16, Cardinality(PutKeys))
    /\ size = Cardinality(PutKeys)
    /\ (hist.op = "put" /\ hist.grew) =>
            (hist.appended /\ 2 * size = Len(buckets))
    /\ Cardinality(PutKeys) = 25 => (size = 25 /\ Len(buckets) = 32)

C9_Witness ==
    /\ ctor.fn = "new" /\ Cardinality(PutKeys) = 25
    /\ size = 25 /\ Len(buckets) = 32

\* C10: with(0, f) builds a table; its first put or get panics, nothing of
\* the table is written and the call returns nothing.
C10_ZeroBucketsPanics ==
    ctor.n = 0 =>
        /\ buckets = <<>> /\ size = 0 /\ PutKeys = {}
        /\ hist.op = "none" => ~panicked
        /\ hist.op # "none" => (panicked /\ ~hist.returned)

C10_Witness ==
    /\ ctor.n = 0 /\ panicked /\ hist.op = "put" /\ buckets = <<>>

\* The values a queue stores: the heap without the placeholder.
Stored(h) == Tail(h)

\* How often a value occurs in a sequence.
Count(q, v) == Len(SelectSeq(q, LAMBDA x : x = v))

\* The largest value of a non-empty sequence.
Largest(q) == CHOOSE m \in PQValues :
    /\ Count(q, m) >= 1
    /\ \A i \in 1..Len(q) : q[i] <= m

\* C11: del_max on a queue that stores a value returns the largest stored
\* value and takes one occurrence of it out; every other count stays.
C11_Step ==
    (pqcall'.op = "del_max" /\ Len(heap) >= 2) =>
        /\ ~pqcall'.panicked
        /\ pqcall'.ret = <<Largest(Stored(heap))>>
        /\ \A v \in PQValues :
            Count(Stored(heap'), v) =
                Count(Stored(heap), v) - (IF v = Largest(Stored(heap)) THEN 1 ELSE 0)

C11_DelMaxTakesLargest == [][C11_Step]_vars

C11_Witness ==
    /\ pqcall.op = "del_max" /\ ~pqcall.panicked /\ Len(heap) >= 5
    /\ Count(Stored(heap), pqcall.ret[1]) >= 1
    /\ \E i \in 2..Len(heap) : heap[i] < pqcall.ret[1]

\* C12: heapsort returns every stored value, as often as it is stored, in
\* ascending order.
C12_Step ==
    pqcall'.op = "heapsort" =>
        /\ ~pqcall'.panicked
        /\ Len(pqcall'.ret) = Len(heap) - 1
        /\ \A v \in PQValues : Count(pqcall'.ret, v) = Count(Stored(heap), v)
        /\ \A i \in 1..(Len(pqcall'.ret) - 1) : pqcall'.ret[i] <= pqcall'.ret[i + 1]

C12_HeapsortAscending == [][C12_Step]_vars

C12_Witness ==
    /\ pqcall.op = "heapsort" /\ Len(pqcall.ret) >= 5
    /\ pqcall.ret[1] < pqcall.ret[Len(pqcall.ret)]
    /\ \E i \in 1..(Len(pqcall.ret) - 1) : pqcall.ret[i] = pqcall.ret[i + 1]

\* C13: top_k(k) with k at most the number of stored values returns the k
\* largest stored values in descending order and takes exactly them out.
C13_Step ==
    (pqcall'.op = "top_k" /\ pqcall'.arg[1] <= Len(heap) - 1) =>
        /\ ~pqcall'.panicked
        /\ Len(pqcall'.ret) = pqcall'.arg[1]
        /\ \A i \in 1..(Len(pqcall'.ret) - 1) : pqcall'.ret[i] >= pqcall'.ret[i + 1]
        /\ \A i \in 1..Len(pqcall'.ret) : \A j \in 2..Len(heap') :
                heap'[j] <= pqcall'.ret[i]
        /\ \A v \in PQValues :
            Count(Stored(heap), v) = Count(pqcall'.ret, v) + Count(Stored(heap'), v)

C13_TopKTakesLargest == [][C13_Step]_vars

C13_Witness ==
    /\ pqcall.op = "top_k" /\ ~pqcall.panicked
    /\ Len(pqcall.ret) >= 3 /\ Len(heap) >= 3
    /\ pqcall.ret[1] > pqcall.ret[Len(pqcall.ret)]
    /\ heap[2] = pqcall.ret[Len(pqcall.ret)]

\* C14: no key is carried by two nodes: the keys of a bucket are pairwise
\* distinct and no key is in two buckets.
C14_KeysOccurOnce ==
    /\ \A i \in 1..Len(buckets) : \A j, k \in 1..Len(buckets[i]) :
            buckets[i][j].key = buckets[i][k].key => j = k
    /\ \A i, j \in 1..Len(buckets) :
            \A a \in 1..Len(buckets[i]) : \A b \in 1..Len(buckets[j]) :
                buckets[i][a].key = buckets[j][b].key => i = j

C14_Witness ==
    /\ hist.op = "put" /\ ~hist.appended /\ Len(buckets) > ctor.n
    /\ \E i \in 1..Len(buckets) : Len(buckets[i]) >= 2
    /\ \E i, j \in 1..Len(buckets) : i # j /\ buckets[i] # <<>> /\ buckets[j] # <<>>

\* C15: every node of bucket i (counted from 0) stores the hash of its key
\* and that hash mod the bucket count is i, so get looks for a key in the
\* bucket that holds its node.
C15_StoredHashPlacesNode ==
    \A i \in 1..Len(buckets) : \A j \in 1..Len(buckets[i]) :
        LET n == buckets[i][j] IN
        /\ n.hash = hash_of(n.key)
        /\ n.hash % Len(buckets) = i - 1
        /\ hash_of(n.key) % Len(buckets) = i - 1

C15_Witness ==
    /\ hist.op = "put" /\ Len(buckets) > ctor.n /\ hmul = 2 /\ size >= 3
    /\ \E i \in 2..Len(buckets) : Len(buckets[i]) >= 2

\* The sum of the lengths of the buckets.
RECURSIVE SumLen(_, _)
SumLen(b, i) == IF i > Len(b) THEN 0 ELSE Len(b[i]) + SumLen(b, i + 1)

\* C16: between calls and at every point of a redistribution from the
\* reset of the size on, size is the sum of the lengths of the buckets.
C16_SizeIsSumOfBuckets ==
    pc.at # "swapped" => size = SumLen(buckets, 1)

C16_Witness ==
    /\ pc.at = "rehash" /\ old # <<>> /\ size >= 1
    /\ size = SumLen(buckets, 1) /\ size < pc.size0

\* C17: every _put of a redistribution appends its node, and when the
\* redistribution is over size is what it was when the growth began.
C17_Step ==
    /\ (pc.at = "rehash" /\ old # <<>>) =>
            /\ ~Present(Self, Head(old).key)
            /\ size' = size + 1
            /\ SumLen(buckets', 1) = SumLen(buckets, 1) + 1
    /\ (pc.at = "rehash" /\ pc'.at = "idle") => size' = pc.size0

C17_GrowthOnlyAppends == [][C17_Step]_vars

C17_Witness ==
    /\ pc.at = "rehash" /\ old = <<>> /\ size = pc.size0 /\ size >= 3
    /\ \E i \in 1..Len(buckets) : Len(buckets[i]) >= 2

\* The place of a key in order, 0 when it was never put.
Rank(key) ==
    IF \E i \in 1..Len(order) : order[i] = key
    THEN CHOOSE i \in 1..Len(order) : order[i] = key
    ELSE 0

\* C18: the nodes of every bucket stand in the order in which their keys
\* were first put, after replacing puts and after growths.
C18_BucketsKeepInsertionOrder ==
    \A i \in 1..Len(buckets) : \A j, k \in 1..Len(buckets[i]) :
        j < k => (/\ Rank(buckets[i][j].key) >= 1
                  /\ Rank(buckets[i][j].key) < Rank(buckets[i][k].key))

C18_Witness ==
    /\ hist.op = "put" /\ ~hist.appended /\ Len(buckets) > ctor.n
    /\ \E i \in 1..Len(buckets) :
            /\ Len(buckets[i]) >= 2
            /\ buckets[i][1].key > buckets[i][2].key
            /\ hist.key = buckets[i][1].key
    /\ \E i, j \in 1..Len(buckets) : i # j /\ buckets[i] # <<>> /\ buckets[j] # <<>>

\* C19: the vector is a max-heap from index 1 on, index 0 holds the
\* placeholder 0, and no call has read or written index 0.
C19_HeapOrdered ==
    /\ Len(heap) >= 1 /\ heap[1] = 0
    /\ ~pqcall.touched0
    /\ \A i \in 2..(Len(heap) - 1) : At(Queue, i) <= At(Queue, i \div 2)

C19_Witness ==
    /\ pqcall.op = "del_max" /\ Len(heap) >= 6
    /\ heap[2] > 0
    /\ \E i \in 2..Len(heap) : heap[i] < 0

\* C20: del_max on a queue that stores no value panics, leaves the queue
\* as it is and returns nothing, the placeholder least of all.
C20_Step ==
    (pqcall'.op = "del_max" /\ Len(heap) = 1) =>
        /\ pqcall'.panicked
        /\ pqcall'.ret = <<>>
        /\ heap' = heap

C20_EmptyDelMaxPanics == [][C20_Step]_vars

C20_Witness ==
    /\ pqcall.op = "del_max" /\ pqcall.panicked /\ heap = <<0>>

====
